---- MODULE Spec2Model ----
(***************************************************************************)
(* The recursive-descent parser of the `first-step` language               *)
(* (src/front/parser.rs) as a call-stack machine, and the visitor dispatch *)
(* of the AST nodes (src/define/ast.rs).                                   *)
(*                                                                         *)
(* Every parser function is one action.  A frame of `stack` is one         *)
(* activation of a parser function: its name, its position (pc) and its    *)
(* locals.  A step runs the code between two calls, pulls at most one      *)
(* token, and ends by staying in the function, calling, or returning.      *)
(***************************************************************************)
EXTENDS Integers, Sequences, FiniteSets, TLC

\* ------------------------------------------------------------------ bounds
\* parse_next calls made on one parser
MaxCalls == 3
\* length of the token streams enumerated over the whole alphabet
MaxLen == 2
\* binary operators in an enumerated operator chain
MaxOps == 3
\* parameters of an enumerated function definition
MaxParams == 2
\* statements of an enumerated function definition
MaxStmts == 2
\* eval/generate_ir dispatches made on one visitor
MaxVisits == 2

\* ------------------------------------------------------------------ tokens
\* Token::Id / Int / Key / Op / Other / End, and the lexer's Err(String)
TId(s) == [k |-> "Id", id |-> s]
TInt(n) == [k |-> "Int", val |-> n]
TKey(w) == [k |-> "Key", key |-> w]
TOp(o) == [k |-> "Op", op |-> o]
TOther(c) == [k |-> "Other", c |-> c]
TEnd == [k |-> "End"]
LexErr(m) == [k |-> "LexErr", msg |-> m]

\* Lexer::next_token on a lexer that yields `toks` and then the end marker
LexerNextToken(toks, i) == IF i <= Len(toks) THEN toks[i] ELSE TEnd

\* ------------------------------------------------------------------ results
\* parser::Result = Result<AstBox, Error>, Error = End | Error(String)
Ok(ast) == [k |-> "Ok", v |-> ast]
ErrEnd == [k |-> "EndOfInput"]
ErrError(m) == [k |-> "Error", msg |-> m]
get_error(message) == ErrError(message)

\* no value is being returned / no frame has just returned / Option::None
NoRet == [k |-> "None"]
NoFrame == [fn |-> "none"]
None == [k |-> "None"]
Some(x) == [k |-> "Some", v |-> x]

\* ------------------------------------------------------------------ AST
AstFunDef(name, args, body) == [k |-> "FunDef", name |-> name, args |-> args, body |-> body]
AstBlock(stmts) == [k |-> "Block", stmts |-> stmts]
AstDefine(name, expr) == [k |-> "Define", name |-> name, expr |-> expr]
AstAssign(name, expr) == [k |-> "Assign", name |-> name, expr |-> expr]
AstIf(cond, then, else_then) == [k |-> "If", cond |-> cond, then |-> then, else_then |-> else_then]
AstReturn(expr) == [k |-> "Return", expr |-> expr]
AstBinary(op, lhs, rhs) == [k |-> "Binary", op |-> op, lhs |-> lhs, rhs |-> rhs]
AstUnary(op, opr) == [k |-> "Unary", op |-> op, opr |-> opr]
AstFunCall(name, args) == [k |-> "FunCall", name |-> name, args |-> args]
AstInt(val) == [k |-> "Int", val |-> val]
AstId(id) == [k |-> "Id", id |-> id]

\* ------------------------------------------------------------------ state
VARIABLES
  input,      \* how the token stream was built
  tokens,     \* what the lexer yields, in order (then the end marker)
  pos,        \* tokens pulled from the lexer so far
  cur_token,  \* Parser.cur_token, the lookahead
  consumed,   \* tokens eaten by grammar productions
  stack,      \* the call stack of the running parse_next call, top last
  ret,        \* the Result a function has just returned to its caller
  callee,     \* the frame of the function that has just returned
  first_err,  \* the first error produced in the running/last call
  history,    \* one record per finished parse_next call
  node,       \* AST dispatch: the node last dispatched
  visits,     \* AST dispatch: the visitor's handler invocations, in order
  vresult     \* AST dispatch: what the last eval/generate_ir returned

vars == <<input, tokens, pos, cur_token, consumed, stack, ret, callee, first_err,
          history, node, visits, vresult>>
astVars == <<node, visits, vresult>>
parserVars == <<input, tokens, pos, cur_token, consumed, stack, ret, callee,
                first_err, history>>

\* ------------------------------------------------------------------ helpers
Top == stack[Len(stack)]
At(f, p) == stack # <<>> /\ Top.fn = f /\ Top.pc = p

\* Parser::next_token: the lookahead becomes the lexer's next token
next_token(p) == [cur_token |-> LexerNextToken(tokens, p + 1), pos |-> p + 1]

\* Parser::new without its pull: the placeholder stays
ParserNewNoPull == [cur_token |-> TEnd, pos |-> 0]

\* Parser::new: the placeholder lookahead, then one pull
ParserNew == next_token(0)

\* a production eats the lookahead
Eat ==
  /\ cur_token' = next_token(pos).cur_token
  /\ pos' = next_token(pos).pos
  /\ consumed' = consumed + 1
NoEat == UNCHANGED <<cur_token, pos, consumed>>

is_token_char(c) == cur_token = TOther(c)
is_token_op(op) == cur_token = TOp(op)
is_token_key(key) == cur_token = TKey(key)
\* Some(op) when the lookahead is one of `ops`
is_token_ops(ops) ==
  IF cur_token.k = "Op" /\ cur_token.op \in ops THEN Some(cur_token.op) ELSE None

IsErr(r) == r.k # "Ok"

\* a fresh activation; `from` is the index of the lookahead it starts at
Frame(f, locals) == [fn |-> f, pc |-> "start", from |-> pos'] @@ locals

\* stay in the running function
Goto(frame) ==
  /\ stack' = [stack EXCEPT ![Len(stack)] = frame]
  /\ ret' = NoRet
  /\ callee' = NoFrame
  /\ UNCHANGED first_err
\* call: the running function waits at `frame`, `g` starts
Call(frame, g) ==
  /\ stack' = Append([stack EXCEPT ![Len(stack)] = frame], g)
  /\ ret' = NoRet
  /\ callee' = NoFrame
  /\ UNCHANGED first_err
\* return r to the caller
Return(r) ==
  /\ stack' = SubSeq(stack, 1, Len(stack) - 1)
  /\ ret' = r
  /\ callee' = Top
  /\ first_err' = IF first_err.k = "None" /\ IsErr(r)
                  THEN [k |-> "Some", err |-> r, pos |-> pos', tok |-> cur_token]
                  ELSE first_err

\* ------------------------------------------------------------------ parser
\* the match of parse_next on the lookahead
ParseNextArm(tok) ==
  CASE tok.k = "End" -> "end"
    [] tok.k = "LexErr" -> "error"
    [] OTHER -> "fundef"

\* an Err arm that skips the bad token
ParseNextSkipBadToken == IF cur_token.k = "LexErr" THEN Eat ELSE NoEat

\* the End and Err arms of parse_next return at once: the lookahead stays
ParseNextReturnAtOnce == NoEat

\* parse_next, the call: dispatch on the lookahead
parse_next_call ==
  /\ stack = <<>>
  /\ Len(history) < MaxCalls
  /\ IF ParseNextArm(cur_token) = "fundef" THEN NoEat ELSE ParseNextReturnAtOnce
  /\ ret' = NoRet
  /\ callee' = NoFrame
  /\ first_err' = None
  /\ UNCHANGED <<input, tokens>>
  /\ LET me == [fn |-> "parse_next", pc |-> "ret", from |-> pos, start |-> cur_token]
         done(r) == /\ history' = Append(history,
                         [start |-> cur_token, from |-> pos, to |-> pos',
                          result |-> r, first_err |-> None])
                    /\ stack' = <<>>
     IN CASE ParseNextArm(cur_token) = "end" -> done(ErrEnd)
          [] ParseNextArm(cur_token) = "error" -> done(ErrError(cur_token.msg))
          [] OTHER -> /\ stack' = <<me, Frame("parse_fundef", [name |-> "", args |-> <<>>])>>
                      /\ UNCHANGED history
  /\ UNCHANGED astVars

\* parse_next, the return: parse_fundef's result is the call's result
parse_next_ret ==
  /\ At("parse_next", "ret")
  /\ UNCHANGED <<input, tokens>>
  /\ NoEat
  /\ history' = Append(history,
       [start |-> Top.start, from |-> Top.from, to |-> pos,
        result |-> ret, first_err |-> first_err])
  /\ stack' = <<>>
  /\ ret' = NoRet
  /\ callee' = NoFrame
  /\ UNCHANGED first_err
  /\ UNCHANGED astVars

\* expect_id / expect_char: what they return when they fail
ExpectIdErr == ErrError("expected identifier")
ExpectCharErr(c) == ErrError("expected '" \o c \o "'")

\* args.insert(0, id)
PushArgFront(args, id) == <<id>> \o args

\* args.push(id)
PushArg(args, id) == Append(args, id)

parse_fundef ==
  /\ stack # <<>> /\ Top.fn = "parse_fundef"
  /\ UNCHANGED <<input, tokens, history>>
  /\ UNCHANGED astVars
  /\ LET f == Top
         \* args.push(self.expect_id()?), then the ',' test
         arg == IF cur_token.k = "Id"
                THEN Eat /\ Goto([f EXCEPT !.pc = "comma", !.args = PushArg(@, cur_token.id)])
                ELSE NoEat /\ Return(ExpectIdErr)
         \* self.expect_char(')')?, then self.parse_block()
         rparen == IF is_token_char(")")
                   THEN Eat /\ Call([f EXCEPT !.pc = "body"], Frame("parse_block", [stmts |-> <<>>]))
                   ELSE NoEat /\ Return(ExpectCharErr(")"))
     IN CASE f.pc = "start" ->
               IF cur_token.k = "Id"
               THEN Eat /\ Goto([f EXCEPT !.pc = "lparen", !.name = cur_token.id])
               ELSE NoEat /\ Return(ExpectIdErr)
          [] f.pc = "lparen" ->
               IF is_token_char("(")
               THEN Eat /\ Goto([f EXCEPT !.pc = "args"])
               ELSE NoEat /\ Return(ExpectCharErr("("))
          [] f.pc = "args" -> IF ~is_token_char(")") THEN arg ELSE rparen
          [] f.pc = "comma" ->
               IF ~is_token_char(",") THEN rparen
               ELSE Eat /\ Goto([f EXCEPT !.pc = "arg"])
          [] f.pc = "arg" -> arg
          [] f.pc = "body" ->
               NoEat /\ Return(IF IsErr(ret) THEN ret
                               ELSE Ok(AstFunDef(f.name, f.args, ret.v)))

parse_block ==
  /\ stack # <<>> /\ Top.fn = "parse_block"
  /\ UNCHANGED <<input, tokens, history>>
  /\ UNCHANGED astVars
  /\ LET f == Top
         \* while !self.is_token_char('}') { parse_statement } ; eat '}'
         loop(stmts) ==
           IF ~is_token_char("}")
           THEN NoEat /\ Call([f EXCEPT !.pc = "stmt", !.stmts = stmts],
                              Frame("parse_statement", <<>>))
           ELSE Eat /\ Return(Ok(AstBlock(stmts)))
     IN CASE f.pc = "start" ->
               IF is_token_char("{")
               THEN Eat /\ Goto([f EXCEPT !.pc = "loop"])
               ELSE NoEat /\ Return(ExpectCharErr("{"))
          [] f.pc = "loop" -> loop(f.stmts)
          [] f.pc = "stmt" ->
               IF IsErr(ret) THEN NoEat /\ Return(ret)
               ELSE loop(Append(f.stmts, ret.v))

\* a last arm that reports the end of the input as Error::End
InvalidStatementOrEnd ==
  IF cur_token = TEnd THEN ErrEnd ELSE get_error("invalid statement")

\* the last arm of parse_statement's match
InvalidStatement == get_error("invalid statement")

parse_statement ==
  /\ stack # <<>> /\ Top.fn = "parse_statement"
  /\ UNCHANGED <<input, tokens, history>>
  /\ UNCHANGED astVars
  /\ NoEat
  /\ LET f == Top
         wait == [f EXCEPT !.pc = "ret"]
     IN CASE f.pc = "start" ->
               CASE cur_token.k = "Id" ->
                      Call(wait, Frame("parse_define_assign",
                                       [id |-> cur_token.id, is_define |-> FALSE]))
                 [] cur_token = TKey("If") ->
                      Call(wait, Frame("parse_if_else", [cond |-> None, then |-> None]))
                 [] cur_token = TKey("Return") ->
                      Call(wait, Frame("parse_return", <<>>))
                 [] OTHER -> Return(InvalidStatement)
          [] f.pc = "ret" -> Return(ret)

\* the activation of an expression-level function
ExprFrame(fn) ==
  CASE fn = "parse_unary" -> Frame(fn, [op |-> ""])
    [] fn = "parse_value" -> Frame(fn, [id |-> ""])
    [] OTHER -> Frame(fn, [lhs |-> None, op |-> ""])
FunCallFrame(id) == Frame("parse_funcall", [id |-> id, args |-> <<>>])

\* the two nodes the wrong way round
DefineAssignSwapped(is_define, id, expr) ==
  IF is_define THEN AstAssign(id, expr) ELSE AstDefine(id, expr)

\* the node of a define/assign statement
DefineAssignNode(is_define, id, expr) ==
  IF is_define THEN AstDefine(id, expr) ELSE AstAssign(id, expr)

parse_define_assign ==
  /\ stack # <<>> /\ Top.fn = "parse_define_assign"
  /\ UNCHANGED <<input, tokens, history>>
  /\ UNCHANGED astVars
  /\ LET f == Top
         is_define == is_token_op("Define")
     IN CASE f.pc = "start" ->
               \* eat id
               Eat /\ Goto([f EXCEPT !.pc = "check"])
          [] f.pc = "check" ->
               IF is_token_char("(")
               THEN NoEat /\ Call([f EXCEPT !.pc = "ret_call"],
                                  FunCallFrame(f.id))
               ELSE IF ~is_define /\ ~is_token_op("Assign")
               THEN NoEat /\ Return(get_error("expected ':=' or '='"))
               ELSE Eat /\ Call([f EXCEPT !.pc = "ret_expr", !.is_define = is_define],
                                ExprFrame("parse_expr"))
          [] f.pc = "ret_call" -> NoEat /\ Return(ret)
          [] f.pc = "ret_expr" ->
               NoEat /\ Return(IF IsErr(ret) THEN ret
                               ELSE Ok(DefineAssignNode(f.is_define, f.id, ret.v)))

parse_if_else ==
  /\ stack # <<>> /\ Top.fn = "parse_if_else"
  /\ UNCHANGED <<input, tokens, history>>
  /\ UNCHANGED astVars
  /\ LET f == Top
     IN CASE f.pc = "start" ->
               \* eat 'if'
               Eat /\ Call([f EXCEPT !.pc = "cond"], ExprFrame("parse_expr"))
          [] f.pc = "cond" ->
               IF IsErr(ret) THEN NoEat /\ Return(ret)
               ELSE NoEat /\ Call([f EXCEPT !.pc = "then", !.cond = ret.v],
                                  Frame("parse_block", [stmts |-> <<>>]))
          [] f.pc = "then" ->
               IF IsErr(ret) THEN NoEat /\ Return(ret)
               ELSE IF is_token_key("Else")
               THEN Eat /\ Goto([f EXCEPT !.pc = "else", !.then = ret.v])
               ELSE NoEat /\ Return(Ok(AstIf(f.cond, ret.v, None)))
          [] f.pc = "else" ->
               IF is_token_key("If")
               THEN NoEat /\ Call([f EXCEPT !.pc = "else_ret"],
                                  Frame("parse_if_else", [cond |-> None, then |-> None]))
               ELSE NoEat /\ Call([f EXCEPT !.pc = "else_ret"],
                                  Frame("parse_block", [stmts |-> <<>>]))
          [] f.pc = "else_ret" ->
               NoEat /\ Return(IF IsErr(ret) THEN ret
                               ELSE Ok(AstIf(f.cond, f.then, Some(ret.v))))

parse_return ==
  /\ stack # <<>> /\ Top.fn = "parse_return"
  /\ UNCHANGED <<input, tokens, history>>
  /\ UNCHANGED astVars
  /\ LET f == Top
     IN CASE f.pc = "start" ->
               \* eat 'return'
               Eat /\ Call([f EXCEPT !.pc = "ret"], ExprFrame("parse_expr"))
          [] f.pc = "ret" ->
               NoEat /\ Return(IF IsErr(ret) THEN ret ELSE Ok(AstReturn(ret.v)))

\* the six levels: the parser of the operands and the level's operators
parse_expr == [parser |-> "parse_land_expr", ops |-> {"LOr"}]
parse_land_expr == [parser |-> "parse_eq_expr", ops |-> {"LAnd"}]
parse_eq_expr == [parser |-> "parse_rel_expr", ops |-> {"Eq", "NotEq"}]
parse_rel_expr == [parser |-> "parse_add_expr", ops |-> {"Less", "LessEq"}]
parse_add_expr_mul_ops == [parser |-> "parse_mul_expr", ops |-> {"Mul", "Div", "Mod"}]
parse_add_expr == [parser |-> "parse_mul_expr", ops |-> {"Add", "Sub"}]
parse_mul_expr == [parser |-> "parse_unary", ops |-> {"Mul", "Div", "Mod"}]
BinaryLevels == {"parse_expr", "parse_land_expr", "parse_eq_expr",
                 "parse_rel_expr", "parse_add_expr", "parse_mul_expr"}
Level(fn) ==
  CASE fn = "parse_expr" -> parse_expr
    [] fn = "parse_land_expr" -> parse_land_expr
    [] fn = "parse_eq_expr" -> parse_eq_expr
    [] fn = "parse_rel_expr" -> parse_rel_expr
    [] fn = "parse_add_expr" -> parse_add_expr
    [] fn = "parse_mul_expr" -> parse_mul_expr

\* a loop that keeps the left-hand side when the right-hand side fails
BinaryRhsRecover(lhs, r) == Ok(lhs)

\* what the loop of parse_binary does with a failed right-hand side
BinaryRhsErr(lhs, r) == r

\* parse_binary(parser, ops), run by each of the six levels
parse_binary ==
  /\ stack # <<>> /\ Top.fn \in BinaryLevels
  /\ UNCHANGED <<input, tokens, history>>
  /\ UNCHANGED astVars
  /\ LET f == Top
         parser == Level(f.fn).parser
         ops == Level(f.fn).ops
         \* loop { match is_token_ops(ops) { None => break, Some(op) => .. } }
         loop(lhs) ==
           LET m == is_token_ops(ops)
           IN IF m = None THEN NoEat /\ Return(Ok(lhs))
              ELSE Eat /\ Call([f EXCEPT !.pc = "rhs", !.lhs = lhs, !.op = m.v],
                               ExprFrame(parser))
     IN CASE f.pc = "start" ->
               NoEat /\ Call([f EXCEPT !.pc = "lhs"], ExprFrame(parser))
          [] f.pc = "lhs" ->
               IF IsErr(ret) THEN NoEat /\ Return(ret) ELSE loop(ret.v)
          [] f.pc = "rhs" ->
               IF IsErr(ret) THEN NoEat /\ Return(BinaryRhsErr(f.lhs, ret))
               ELSE loop(AstBinary(f.op, f.lhs, ret.v))

\* the parser of a unary operator's operand
UnaryOperandParser == "parse_expr"

parse_unary ==
  /\ stack # <<>> /\ Top.fn = "parse_unary"
  /\ UNCHANGED <<input, tokens, history>>
  /\ UNCHANGED astVars
  /\ LET f == Top
     IN CASE f.pc = "start" ->
               IF cur_token.k = "Op"
               THEN /\ Eat
                    /\ IF cur_token.op \in {"Sub", "LNot"}
                       THEN Call([f EXCEPT !.pc = "ret", !.op = cur_token.op],
                                 ExprFrame(UnaryOperandParser))
                       ELSE Return(get_error("invalid unary operator"))
               ELSE NoEat /\ Call([f EXCEPT !.pc = "ret_value"], ExprFrame("parse_value"))
          [] f.pc = "ret" ->
               NoEat /\ Return(IF IsErr(ret) THEN ret ELSE Ok(AstUnary(f.op, ret.v)))
          [] f.pc = "ret_value" -> NoEat /\ Return(ret)

parse_value ==
  /\ stack # <<>> /\ Top.fn = "parse_value"
  /\ UNCHANGED <<input, tokens, history>>
  /\ UNCHANGED astVars
  /\ LET f == Top
     IN CASE f.pc = "start" ->
               CASE cur_token.k = "Int" -> Eat /\ Return(Ok(AstInt(cur_token.val)))
                 [] cur_token.k = "Id" ->
                      Eat /\ Goto([f EXCEPT !.pc = "id", !.id = cur_token.id])
                 [] cur_token = TOther("(") ->
                      Eat /\ Call([f EXCEPT !.pc = "paren"], ExprFrame("parse_expr"))
                 [] OTHER -> NoEat /\ Return(get_error("invalid value"))
          [] f.pc = "id" ->
               IF is_token_char("(")
               THEN NoEat /\ Call([f EXCEPT !.pc = "ret_call"], FunCallFrame(f.id))
               ELSE NoEat /\ Return(Ok(AstId(f.id)))
          [] f.pc = "paren" ->
               IF IsErr(ret) THEN NoEat /\ Return(ret)
               ELSE IF is_token_char(")") THEN Eat /\ Return(Ok(ret.v))
               ELSE NoEat /\ Return(ExpectCharErr(")"))
          [] f.pc = "ret_call" -> NoEat /\ Return(ret)

parse_funcall ==
  /\ stack # <<>> /\ Top.fn = "parse_funcall"
  /\ UNCHANGED <<input, tokens, history>>
  /\ UNCHANGED astVars
  /\ LET f == Top
         \* self.expect_char(')')?, then Ok(FunCall)
         rparen(args) ==
           IF is_token_char(")") THEN Eat /\ Return(Ok(AstFunCall(f.id, args)))
           ELSE NoEat /\ Return(ExpectCharErr(")"))
     IN CASE f.pc = "start" ->
               \* eat '('
               Eat /\ Goto([f EXCEPT !.pc = "args"])
          [] f.pc = "args" ->
               IF ~is_token_char(")")
               THEN NoEat /\ Call([f EXCEPT !.pc = "arg"], ExprFrame("parse_expr"))
               ELSE rparen(f.args)
          [] f.pc = "arg" ->
               IF IsErr(ret) THEN NoEat /\ Return(ret)
               ELSE IF ~is_token_char(",") THEN rparen(Append(f.args, ret.v))
               ELSE Eat /\ Call([f EXCEPT !.pc = "arg", !.args = Append(@, ret.v)],
                                ExprFrame("parse_expr"))

\* ------------------------------------------------------------------ AST dispatch
\* <X>AST::eval: the visitor method it calls
EvalHandler(ast) ==
  CASE ast.k = "FunDef" -> "visit_fundef"
    [] ast.k = "Block" -> "visit_block"
    [] ast.k = "Define" -> "visit_define"
    [] ast.k = "Assign" -> "visit_assign"
    [] ast.k = "If" -> "visit_if"
    [] ast.k = "Binary" -> "visit_binary"
    [] ast.k = "Unary" -> "visit_unary"
    [] ast.k = "FunCall" -> "visit_funcall"
    [] ast.k = "Int" -> "visit_int"
    [] ast.k = "Id" -> "visit_id"

\* IfAST::generate_ir calling the handler of blocks
GenerateIrHandlerIfAsBlock(ast) ==
  IF ast.k = "If" THEN "visit_block" ELSE EvalHandler(ast)

\* <X>AST::generate_ir: the visitor method it calls
GenerateIrHandler(ast) ==
  CASE ast.k = "FunDef" -> "visit_fundef"
    [] ast.k = "Block" -> "visit_block"
    [] ast.k = "Define" -> "visit_define"
    [] ast.k = "Assign" -> "visit_assign"
    [] ast.k = "If" -> "visit_if"
    [] ast.k = "Binary" -> "visit_binary"
    [] ast.k = "Unary" -> "visit_unary"
    [] ast.k = "FunCall" -> "visit_funcall"
    [] ast.k = "Int" -> "visit_int"
    [] ast.k = "Id" -> "visit_id"

\* a visitor: what handler `h` returns for `ast` after the visits `seen`
\* (T::Result is the visitor's own; the AST does not look into it)
VisitorResult(h, ast, seen) == [by |-> h, ast |-> ast, after |-> Len(seen)]

\* the visitor runs handler `h` on `ast`
Visit(h, ast) ==
  /\ visits' = Append(visits, [handler |-> h, ast |-> ast])
  /\ vresult' = VisitorResult(h, ast, visits)

\* nodes of every variant of ast.rs
AstNodes ==
  {AstFunDef("f", <<"x">>, AstBlock(<<>>)),
   AstBlock(<<>>),
   AstBlock(<<AstDefine("x", AstInt(1))>>),
   AstDefine("x", AstInt(1)),
   AstAssign("x", AstId("y")),
   AstIf(AstId("x"), AstBlock(<<>>), AstBlock(<<>>)),
   AstBinary("Add", AstInt(1), AstInt(2)),
   AstUnary("Sub", AstInt(1)),
   AstFunCall("g", <<AstInt(1)>>),
   AstInt(1), AstInt(2),
   AstId("x")}

eval ==
  /\ Len(visits) < MaxVisits
  /\ \E ast \in AstNodes :
       /\ node' = [op |-> "eval", ast |-> ast, before |-> visits]
       /\ Visit(EvalHandler(ast), ast)
  /\ UNCHANGED parserVars

generate_ir ==
  /\ Len(visits) < MaxVisits
  /\ \E ast \in AstNodes :
       /\ node' = [op |-> "generate_ir", ast |-> ast, before |-> visits]
       /\ Visit(GenerateIrHandler(ast), ast)
  /\ UNCHANGED parserVars

\* ------------------------------------------------------------------ inputs
LP == TOther("(")
RP == TOther(")")
LB == TOther("{")
RB == TOther("}")
COMMA == TOther(",")

\* one token of every kind the parser tells apart, and a lexical error
Alphabet ==
  {TId("f"), TId("x"), TInt(1), TKey("If"), TKey("Else"), TKey("Return"),
   TOp("Define"), TOp("Assign"), TOp("Add"), TOp("Sub"), TOp("Mul"), TOp("LNot"),
   LP, RP, LB, RB, COMMA, TOther(";"), LexErr("bad char")}

SeqsUpTo(S, n) == UNION {[1..m -> S] : m \in 0..n}

\* every stream of at most MaxLen tokens
ShortStreams == SeqsUpTo(Alphabet, MaxLen)

\* the operators of the six binary levels
BinaryOps == {"LOr", "LAnd", "Eq", "NotEq", "Less", "LessEq",
              "Add", "Sub", "Mul", "Div", "Mod"}

\* 1 op 2 op 3 ..: the i-th value is the integer i
RECURSIVE Chain(_)
Chain(ops) ==
  IF ops = <<>> THEN <<TInt(1)>>
  ELSE Chain(SubSeq(ops, 1, Len(ops) - 1))
         \o <<TOp(ops[Len(ops)]), TInt(Len(ops) + 1)>>

\* f ( ) { return <expression> }
ReturnOf(e) == <<TId("f"), LP, RP, LB, TKey("Return")>> \o e \o <<RB>>
ChainStreams == {ReturnOf(Chain(ops)) : ops \in SeqsUpTo(BinaryOps, MaxOps)}

\* statements, as tokens and as the node the grammar gives them
Stmts ==
  << [toks |-> <<TKey("Return"), TId("x")>>, ast |-> AstReturn(AstId("x"))],
     [toks |-> <<TId("x"), TOp("Define"), TInt(1)>>, ast |-> AstDefine("x", AstInt(1))],
     [toks |-> <<TId("y"), TOp("Assign"), TId("x")>>, ast |-> AstAssign("y", AstId("x"))],
     [toks |-> <<TId("g"), LP, RP>>, ast |-> AstFunCall("g", <<>>)],
     [toks |-> <<TKey("If"), TId("x"), LB, RB>>,
      ast |-> AstIf(AstId("x"), AstBlock(<<>>), None)] >>

RECURSIVE Flatten(_)
Flatten(ss) == IF ss = <<>> THEN <<>> ELSE Head(ss) \o Flatten(Tail(ss))

\* p1 , p2 , .. , pn
RECURSIVE ParamList(_)
ParamList(ps) ==
  IF ps = <<>> THEN <<>>
  ELSE IF Len(ps) = 1 THEN <<TId(ps[1])>>
  ELSE <<TId(ps[1]), COMMA>> \o ParamList(Tail(ps))

\* name ( p1 , .. , pn ) { s1 .. sk } and what may follow it
FunDefTokens(d) ==
  <<TId(d.name), LP>> \o ParamList(d.params) \o <<RP, LB>>
    \o Flatten([i \in 1..Len(d.stmts) |-> Stmts[d.stmts[i]].toks]) \o <<RB>> \o d.tail
FunDefInputs ==
  {[name |-> n, params |-> ps, stmts |-> ss, tail |-> t] :
     n \in {"f"}, ps \in SeqsUpTo({"x", "y"}, MaxParams),
     ss \in SeqsUpTo(1..Len(Stmts), MaxStmts),
     t \in {<<>>, <<TId("g")>>, <<LexErr("bad char")>>}}
FunDefStreams == {FunDefTokens(d) : d \in FunDefInputs}

\* the input of test_parser
TestInput ==
  <<TId("func"), LP, TId("x"), RP, LB,
    TKey("If"), TId("x"), TOp("Eq"), TInt(10), LB,
    TKey("Return"), TId("x"), TOp("Add"), TInt(11), RB, RB>>

\* f(x, y) { x := -y * 2  g(x, 1)  if !x { y = (x + 1) } else if y { } else { return g() } }
Program ==
  <<TId("f"), LP, TId("x"), COMMA, TId("y"), RP, LB,
    TId("x"), TOp("Define"), TOp("Sub"), TId("y"), TOp("Mul"), TInt(2),
    TId("g"), LP, TId("x"), COMMA, TInt(1), RP,
    TKey("If"), TOp("LNot"), TId("x"), LB,
    TId("y"), TOp("Assign"), LP, TId("x"), TOp("Add"), TInt(1), RP, RB,
    TKey("Else"), TKey("If"), TId("y"), LB, RB,
    TKey("Else"), LB, TKey("Return"), TId("g"), LP, RP, RB, RB>>

NegMul == ReturnOf(<<TOp("Sub"), TId("a"), TOp("Mul"), TId("b")>>)
NotEq == ReturnOf(<<TOp("LNot"), TId("a"), TOp("Eq"), TId("b")>>)
Examples == {TestInput, Program, NegMul, NotEq, TestInput \o Program}

\* a well-formed input cut short, or with one token replaced
Damaged(b) ==
  {SubSeq(b, 1, i - 1) : i \in 1..Len(b)}
    \cup {[b EXCEPT ![i] = t] : i \in 1..Len(b), t \in Alphabet}
DamagedStreams == Damaged(TestInput) \cup Damaged(Program)

Streams == ShortStreams \cup ChainStreams \cup Examples \cup DamagedStreams

\* the parser right after Parser::new on the lexer of `tokens`
Constructed ==
  /\ cur_token = ParserNew.cur_token
  /\ pos = ParserNew.pos
  /\ consumed = 0
  /\ stack = <<>>
  /\ ret = NoRet
  /\ callee = NoFrame
  /\ first_err = None
  /\ history = <<>>

NoDispatch ==
  /\ node = None
  /\ visits = <<>>
  /\ vresult = None

Init ==
  /\ \/ \E d \in FunDefInputs :
          input = [family |-> "fundef", d |-> d] /\ tokens = FunDefTokens(d)
     \/ \E s \in Streams :
          input = [family |-> "stream"] /\ tokens = s
  /\ Constructed
  /\ NoDispatch

Next ==
  \/ parse_next_call
  \/ parse_next_ret
  \/ parse_fundef
  \/ parse_block
  \/ parse_statement
  \/ parse_define_assign
  \/ parse_if_else
  \/ parse_return
  \/ parse_binary
  \/ parse_unary
  \/ parse_value
  \/ parse_funcall

Spec == Init /\ [][Next]_vars

\* the AST dispatch alone, on a parser that is never called
InitAst ==
  /\ input = [family |-> "stream"]
  /\ tokens = <<>>
  /\ Constructed
  /\ NoDispatch

NextAst ==
  \/ eval
  \/ generate_ir

SpecAst == InitAst /\ [][NextAst]_vars

\* ------------------------------------------------------------------ claims
\* the token at index i of the stream (the end marker past its end)
TokenAt(i) == IF i \in 1..Len(tokens) THEN tokens[i] ELSE TEnd
Calls == DOMAIN history
SyntaxError(m) == [k |-> "Error", msg |-> m]
EndOfInput == [k |-> "EndOfInput"]

\* C1: on a stream that starts with name(p1,..,pn) { s1 .. sk } the first
\* parse_next call returns the FunctionDefinition of that name, with the
\* parameters p1..pn and a Block of the k statement nodes, in source order;
\* on the input of test_parser it returns the tree the test asserts.
TestTree ==
  AstFunDef("func", <<"x">>, AstBlock(<<
    AstIf(AstBinary("Eq", AstId("x"), AstInt(10)),
          AstBlock(<<AstReturn(AstBinary("Add", AstId("x"), AstInt(11)))>>),
          None) >>))
FunDefTree(d) ==
  AstFunDef(d.name, d.params,
            AstBlock([i \in 1..Len(d.stmts) |-> Stmts[d.stmts[i]].ast]))
C1_FunDefShape ==
  history # <<>> =>
    /\ input.family = "fundef" => history[1].result = Ok(FunDefTree(input.d))
    /\ tokens = TestInput => history[1].result = Ok(TestTree)
C1_Witness ==
  /\ input.family = "fundef"
  /\ Len(input.d.params) = 2 /\ Len(input.d.stmts) = 2
  /\ history # <<>> /\ history[1].result.k = "Ok"

\* C2: in every state the tokens pulled from the lexer are the tokens eaten
\* by the productions plus one, and the lookahead is the stream's token
\* right after the eaten ones; so after construction it is the first token.
C2_OneTokenLookahead ==
  /\ pos = consumed + 1
  /\ cur_token = TokenAt(consumed + 1)
C2_Witness ==
  /\ stack # <<>>
  /\ consumed >= 3
  /\ cur_token.k \notin {"End", "LexErr"}

\* C3: a parse_next call returns EndOfInput exactly when the lookahead it
\* starts with is the end marker; a call that meets the end marker after the
\* unit has started returns a SyntaxError.
C3_EndOfInputIff ==
  \A i \in Calls :
    LET h == history[i]
    IN /\ (h.result = EndOfInput) <=> (h.start = TEnd)
       /\ h.start # TEnd => h.result.k \in {"Ok", "Error"}
       /\ (h.first_err.k = "Some" /\ h.first_err.tok = TEnd) => h.result.k = "Error"
C3_Witness ==
  /\ \E i \in Calls : /\ history[i].first_err.k = "Some"
                      /\ history[i].first_err.tok = TEnd
                      /\ history[i].result.k = "Error"
  /\ \E i \in Calls : history[i].result = EndOfInput

\* C4: a parse_next call whose first error arises at a lookahead that is a
\* lexical error with message m returns SyntaxError(m).
C4_LexicalMessageKept ==
  \A i \in Calls :
    LET h == history[i]
    IN /\ h.start.k = "LexErr" => h.result = SyntaxError(h.start.msg)
       /\ (h.first_err.k = "Some" /\ h.first_err.tok.k = "LexErr")
            => h.result = SyntaxError(h.first_err.tok.msg)

\* C5: in an expression without parentheses the operand of a UnaryOp is
\* never a BinaryOp; `-a * b` is Mul(Neg a, b) and `!a == b` is Eq(Not a, b).
NoParens(from, to) == \A i \in from..to : TokenAt(i) \notin {LP, RP}
ReturnTree(e) == AstFunDef("f", <<>>, AstBlock(<<AstReturn(e)>>))
C5_UnaryBindsTightest ==
  /\ (callee.fn = "parse_unary" /\ ret.k = "Ok" /\ ret.v.k = "Unary"
        /\ NoParens(callee.from, pos - 1))
       => ret.v.opr.k # "Binary"
  /\ (history # <<>> /\ tokens = NegMul) =>
       history[1].result =
         Ok(ReturnTree(AstBinary("Mul", AstUnary("Sub", AstId("a")), AstId("b"))))
  /\ (history # <<>> /\ tokens = NotEq) =>
       history[1].result =
         Ok(ReturnTree(AstBinary("Eq", AstUnary("LNot", AstId("a")), AstId("b"))))

\* C6: on an expression of values and binary operators only, parse_expr
\* returns the tree of the reference grammar: tighter levels below looser
\* ones, a run of one level folded to the left.
Prec(op) ==
  CASE op = "LOr" -> 1
    [] op = "LAnd" -> 2
    [] op \in {"Eq", "NotEq"} -> 3
    [] op \in {"Less", "LessEq"} -> 4
    [] op \in {"Add", "Sub"} -> 5
    [] op \in {"Mul", "Div", "Mod"} -> 6
IsBinOpAt(i) == TokenAt(i).k = "Op" /\ TokenAt(i).op \in BinaryOps
\* an integer, or an identifier that is not the callee of a call
IsValueAt(i) ==
  \/ TokenAt(i).k = "Int"
  \/ TokenAt(i).k = "Id" /\ TokenAt(i + 1) # LP
\* the last token of the longest  value (op value)*  that starts at p
RECURSIVE ChainEnd(_)
ChainEnd(p) == IF IsBinOpAt(p + 1) /\ IsValueAt(p + 2) THEN ChainEnd(p + 2) ELSE p
\* the reference tree of tokens p..q: split at the last operator of the
\* loosest level
RefTree[p \in Nat, q \in Nat] ==
  IF p = q
  THEN IF TokenAt(p).k = "Int" THEN AstInt(TokenAt(p).val) ELSE AstId(TokenAt(p).id)
  ELSE LET opsAt == {i \in p..q : TokenAt(i).k = "Op"}
           loosest == CHOOSE l \in 1..6 :
                        /\ \E i \in opsAt : Prec(TokenAt(i).op) = l
                        /\ \A i \in opsAt : Prec(TokenAt(i).op) >= l
           at == CHOOSE i \in opsAt :
                   /\ Prec(TokenAt(i).op) = loosest
                   /\ \A j \in opsAt : Prec(TokenAt(j).op) = loosest => j <= i
       IN AstBinary(TokenAt(at).op, RefTree[p, at - 1], RefTree[at + 1, q])
\* parse_expr has just returned from an expression of that shape
BinaryOnly ==
  /\ callee.fn = "parse_expr"
  /\ IsValueAt(callee.from)
  /\ ~IsBinOpAt(ChainEnd(callee.from) + 1)
C6_PrecedenceClimbing ==
  BinaryOnly =>
    /\ ret = Ok(RefTree[callee.from, ChainEnd(callee.from)])
    /\ pos = ChainEnd(callee.from) + 1
C6_Witness ==
  /\ BinaryOnly
  /\ ret = Ok(AstBinary("Sub",
                AstBinary("Sub", AstInt(1), AstBinary("Mul", AstInt(2), AstInt(3))),
                AstInt(4)))

\* C7: when parse_define_assign returns, the token right after the
\* identifier has decided the statement: after `(` a node is a Call of that
\* name, after := a Define of that name, after = an Assign of that name, and
\* after any other token the result is the error "expected ':=' or '='",
\* with nothing but the identifier eaten; that error arises in no other
\* case, where a failure can only come from the tokens after the second.
ExpectedDefineAssign == SyntaxError("expected ':=' or '='")
C7_SecondTokenDecides ==
  callee.fn = "parse_define_assign" =>
    LET id == TokenAt(callee.from).id
        t == TokenAt(callee.from + 1)
        \* a failure, if any, lies past the deciding token
        yields(kind) == /\ ret # ExpectedDefineAssign
                        /\ ret.k = "Ok" => (ret.v.k = kind /\ ret.v.name = id)
                        /\ ret.k # "Ok" => pos >= callee.from + 2
    IN CASE t = LP -> yields("FunCall")
         [] t = TOp("Define") -> yields("Define")
         [] t = TOp("Assign") -> yields("Assign")
         [] OTHER -> ret = ExpectedDefineAssign /\ pos = callee.from + 1
C7_Witness ==
  /\ callee.fn = "parse_define_assign"
  /\ TokenAt(callee.from + 1) = TEnd
  /\ ret = ExpectedDefineAssign

\* C8: once a parsing function has produced an error in a parse_next call,
\* no token is pulled in that call, every enclosing function returns that
\* very error, and the call returns it and no node.
C8_FirstErrorPropagates ==
  /\ first_err.k = "Some" =>
       /\ pos = first_err.pos
       /\ stack # <<>> => ret = first_err.err
  /\ \A i \in Calls :
       LET h == history[i]
       IN /\ h.first_err.k = "Some" =>
               (h.result = h.first_err.err /\ h.to = h.first_err.pos)
          /\ h.result.k = "Ok" => h.first_err.k = "None"
C8_Witness ==
  /\ first_err.k = "Some"
  /\ Len(stack) >= 12
  /\ callee.fn = "parse_value"
  /\ ret = SyntaxError("invalid value")
  /\ \E i \in 1..Len(stack) : stack[i].fn = "parse_if_else"

\* C9: eval and generate_ir each run exactly one visitor handler, the one
\* of the node's variant, on the node itself, and return what it returned;
\* the two choose the same handler for every node.
VariantHandler ==
  [FunDef |-> "visit_fundef", Block |-> "visit_block", Define |-> "visit_define",
   Assign |-> "visit_assign", If |-> "visit_if", Binary |-> "visit_binary",
   Unary |-> "visit_unary", FunCall |-> "visit_funcall", Int |-> "visit_int",
   Id |-> "visit_id"]
C9_DispatchByVariant ==
  /\ node # None =>
       LET h == VariantHandler[node.ast.k]
       IN /\ visits = Append(node.before, [handler |-> h, ast |-> node.ast])
          /\ vresult = VisitorResult(h, node.ast, node.before)
  /\ \A ast \in AstNodes : EvalHandler(ast) = GenerateIrHandler(ast)
C9_Witness ==
  /\ node # None
  /\ node.op = "generate_ir"
  /\ node.ast.k = "If"
  /\ Len(visits) = 2
  /\ visits[1].handler = "visit_funcall"

\* C10: a parse_next call that starts at the end marker or at a lexical
\* error pulls no token and leaves the lookahead; every later call on the
\* parser starts at the same lookahead and returns the same result.
C10_StuckAtEndOrError ==
  \A i \in Calls :
    history[i].start.k \in {"End", "LexErr"} =>
      /\ history[i].to = history[i].from
      /\ pos = history[i].from
      /\ cur_token = history[i].start
      /\ \A j \in Calls : j > i =>
           /\ history[j].start = history[i].start
           /\ history[j].result = history[i].result
C10_Witness ==
  /\ Len(history) = 3
  /\ history[1].start.k = "LexErr"
  /\ history[3].result = SyntaxError("bad char")
====
